---- MODULE Spec2Model ----
(***************************************************************************)
(* Model of fedrec/utilities/registry.py: the process-wide registry        *)
(* LOOKUP_DICT (a defaultdict of dicts), the registration decorator        *)
(* returned by load, lookup, construct / instantiate and the Registrable   *)
(* class-reference helpers.                                                *)
(*                                                                         *)
(* Exceptions are modelled by their Python class and their argument, the   *)
(* two things a caller can observe.                                        *)
(***************************************************************************)
EXTENDS Integers, Sequences, FiniteSets, TLC

VARIABLES LOOKUP_DICT, decorators, last, threads

vars == <<LOOKUP_DICT, decorators, last, threads>>

(***************************************************************************)
(* Bounds                                                                  *)
(***************************************************************************)
\* configuration values are drawn from 1..MaxValue
MaxValue == 2

\* how many decorator closures returned by load the program keeps around
MaxDecorators == 2

\* how many threads apply a decorator without serialization
NumThreads == 2

(***************************************************************************)
(* Python dict helpers                                                     *)
(***************************************************************************)
EmptyDict == <<>>

\* d[k] = v on a dict
Put(d, k, v) == [x \in (DOMAIN d) \cup {k} |-> IF x = k THEN v ELSE d[x]]

\* collections.defaultdict(dict).__getitem__: a missing key is inserted
\* with a fresh empty dict before it is returned
DefaultGet(store, k) == IF k \in DOMAIN store THEN store ELSE Put(store, k, EmptyDict)

(***************************************************************************)
(* Constructors: the callables handed to the registry.  Each has the       *)
(* attributes the code reads: __module__, __name__, whether it is a        *)
(* subclass of Registrable, and its inspect.signature parameters.          *)
(***************************************************************************)
Param(n, k) == [name |-> n, kind |-> k]

Classes ==
  [ DLRM_Net    |-> [module |-> "models", name |-> "DLRM_Net", registrable |-> FALSE,
                     params |-> << Param("a", "POSITIONAL_OR_KEYWORD"),
                                   Param("b", "POSITIONAL_OR_KEYWORD") >>],
    \* a second class object defined later under the same module and name
    DLRM_Net_v2 |-> [module |-> "models", name |-> "DLRM_Net", registrable |-> TRUE,
                     params |-> << Param("a", "POSITIONAL_OR_KEYWORD"),
                                   Param("kwargs", "VAR_KEYWORD") >>],
    Trainer     |-> [module |-> "trainers", name |-> "Trainer", registrable |-> TRUE,
                     params |-> << Param("name", "POSITIONAL_OR_KEYWORD"),
                                   Param("a", "KEYWORD_ONLY") >>],
    Worker      |-> [module |-> "workers", name |-> "Worker", registrable |-> FALSE,
                     params |-> << >>],
    PosOnly     |-> [module |-> "models", name |-> "PosOnly", registrable |-> FALSE,
                     params |-> << Param("a", "POSITIONAL_ONLY"),
                                   Param("b", "POSITIONAL_OR_KEYWORD") >>],
    VarArgs     |-> [module |-> "models", name |-> "VarArgs", registrable |-> FALSE,
                     params |-> << Param("a", "POSITIONAL_OR_KEYWORD"),
                                   Param("args", "VAR_POSITIONAL"),
                                   Param("kwargs", "VAR_KEYWORD") >>] ]

\* every constructor handed to instantiate
Callables == DOMAIN Classes

\* the constructors the registration operations are exercised with
Registered == {"DLRM_Net", "DLRM_Net_v2", "Trainer"}

\* f"{cls.__module__}.{cls.__name__}"
type_name(cls) == Classes[cls].module \o "." \o Classes[cls].name

\* issubclass(class_ref, Registrable)
issubclass_Registrable(cls) == Classes[cls].registrable

(***************************************************************************)
(* Exceptions                                                              *)
(***************************************************************************)
NoException == [exc |-> "None", arg |-> ""]

Raise(cls, a) == [exc |-> cls, arg |-> a]

\* f'Nothing registered under "{kind}"'
NothingRegistered(kind) == "Nothing registered under \"" \o kind \o "\""

\* f'{name} already present'
AlreadyPresent(name) == name \o " already present"

\* f'No class found for "{class_name}"'
NoClassFound(class_name) == "No class found for \"" \o class_name \o "\""

\* f'Unsupported kind for param {name}: {param.kind}'
UnsupportedKind(p) == "Unsupported kind for param " \o p.name \o ": " \o p.kind

ReservedKeyword == "reserved keyword for kind \"class_map\""

NotRegistrable == "Annotated class must be a subclass of Registrable"

(***************************************************************************)
(* Inputs of the registry operations                                       *)
(***************************************************************************)
Kinds == {"model", "trainer", "class_map"}

\* names under which constructors are registered and looked up
Names == {"dlrm", NothingRegistered("model")}

\* a name argument of lookup is a string or a Mapping
Str(s) == [isMapping |-> FALSE, str |-> s]

Mapping(m) == [isMapping |-> TRUE, map |-> m]

\* the name argument of register_class_ref: None or a string
None == {}

Some(s) == {s}

\* qualified names looked up with lookup_class_ref
ClassNames == {type_name(c) : c \in Registered}

\* values of the name argument of register_class_ref
ClassRefNames == {None, Some("models.DLRM_Net")}

\* Mappings passed to lookup in place of a name
NameMappings == {[name |-> "dlrm"], EmptyDict}

NameArgs == {Str(n) : n \in Names} \cup {Mapping(m) : m \in NameMappings}

(***************************************************************************)
(* Registry operations.  Each takes the value of LOOKUP_DICT before the    *)
(* call and yields its value after the call and the outcome: the exception *)
(* raised (or none) and the value returned.                                *)
(***************************************************************************)
NoReturn == {}

\* config holds the caller's config object as it is after a call of construct
\* or instantiate; the other calls take none
NoConfig == {}

Outcome(store, e, r) ==
  [store |-> store, exc |-> e.exc, arg |-> e.arg, ret |-> r, stderr |-> <<>>,
   config |-> NoConfig]

\* load without the assertion of line 52
load_unguarded(store, kind, name) ==
  LET registry == DefaultGet(store, kind)
      class_ref == DefaultGet(registry, "class_map")
  IN  Outcome(class_ref, NoException, {[kind |-> kind, name |-> name]})

\* load(kind, name), lines 52-62: the decorator returned is the closure
\* over name and the two buckets, identified here by (kind, name)
load(store, kind, name) ==
  IF kind = "class_map"
  THEN Outcome(store, Raise("AssertionError", ReservedKeyword), NoReturn)
  ELSE LET registry == DefaultGet(store, kind)
           class_ref == DefaultGet(registry, "class_map")
       IN  Outcome(class_ref, NoException, {[kind |-> kind, name |-> name]})

\* decorator that records the class reference before it checks the name
decorator_check_late(store, d, obj) ==
  LET class_ref == Put(store["class_map"], type_name(obj), obj)
      registry == Put(store[d.kind], d.name, obj)
  IN  IF d.name \in DOMAIN store[d.kind]
      THEN Outcome([store EXCEPT !["class_map"] = class_ref],
                   Raise("LookupError", AlreadyPresent(d.name)), NoReturn)
      ELSE Outcome([store EXCEPT ![d.kind] = registry, !["class_map"] = class_ref],
                   NoException, {obj})

\* decorator without the membership check of lines 57-58
decorator_overwrite(store, d, obj) ==
  LET registry == Put(store[d.kind], d.name, obj)
      class_ref == Put(store["class_map"], type_name(obj), obj)
  IN  Outcome([store EXCEPT ![d.kind] = registry, !["class_map"] = class_ref],
              NoException, {obj})

\* decorator without the class_map write of line 60
decorator_no_class_ref(store, d, obj) ==
  IF d.name \in DOMAIN store[d.kind]
  THEN Outcome(store, Raise("LookupError", AlreadyPresent(d.name)), NoReturn)
  ELSE Outcome([store EXCEPT ![d.kind] = Put(store[d.kind], d.name, obj)],
               NoException, {obj})

\* decorator whose membership test looks into the buckets of all kinds
decorator_any_kind(store, d, obj) ==
  IF \E k \in (DOMAIN store) \ {"class_map"} : d.name \in DOMAIN store[k]
  THEN Outcome(store, Raise("LookupError", AlreadyPresent(d.name)), NoReturn)
  ELSE LET registry == Put(store[d.kind], d.name, obj)
           class_ref == Put(store["class_map"], type_name(obj), obj)
       IN  Outcome([store EXCEPT ![d.kind] = registry, !["class_map"] = class_ref],
                   NoException, {obj})

\* decorator(obj), lines 56-61, for the closure d
decorator(store, d, obj) ==
  IF d.name \in DOMAIN store[d.kind]
  THEN Outcome(store, Raise("LookupError", AlreadyPresent(d.name)), NoReturn)
  ELSE LET registry == Put(store[d.kind], d.name, obj)
           class_ref == Put(store["class_map"], type_name(obj), obj)
       IN  Outcome([store EXCEPT ![d.kind] = registry, !["class_map"] = class_ref],
                   NoException, {obj})

\* lookup that subscripts LOOKUP_DICT[kind] without the test of line 99
lookup_subscript_first(store, kind, name) ==
  IF name.isMapping /\ "name" \notin DOMAIN name.map
  THEN Outcome(store, Raise("KeyError", "name"), NoReturn)
  ELSE LET n == IF name.isMapping THEN name.map["name"] ELSE name.str
           created == DefaultGet(store, kind)
       IN  IF n \notin DOMAIN created[kind]
           THEN Outcome(created, Raise("KeyError", n), NoReturn)
           ELSE Outcome(created, NoException, {created[kind][n]})

\* lookup(kind, name), lines 96-101
lookup(store, kind, name) ==
  IF name.isMapping /\ "name" \notin DOMAIN name.map
  THEN Outcome(store, Raise("KeyError", "name"), NoReturn)
  ELSE LET n == IF name.isMapping THEN name.map["name"] ELSE name.str
       IN  IF kind \notin DOMAIN store
           THEN Outcome(store, Raise("KeyError", NothingRegistered(kind)), NoReturn)
           ELSE IF n \notin DOMAIN store[kind]
                THEN Outcome(store, Raise("KeyError", n), NoReturn)
                ELSE Outcome(store, NoException, {store[kind][n]})

\* register_class_ref without the assertion of lines 227-228
register_class_ref_unchecked(store, class_ref, name) ==
  LET n == IF name = None THEN type_name(class_ref) ELSE CHOOSE s \in name : TRUE
      created == DefaultGet(store, "class_map")
  IN  Outcome([created EXCEPT !["class_map"] = Put(created["class_map"], n, class_ref)],
              NoException, {class_ref})

\* register_class_ref that keeps an entry already present (dict.setdefault)
register_class_ref_setdefault(store, class_ref, name) ==
  IF name = None /\ ~issubclass_Registrable(class_ref)
  THEN Outcome(store, Raise("AssertionError", NotRegistrable), NoReturn)
  ELSE LET n == IF name = None THEN type_name(class_ref) ELSE CHOOSE s \in name : TRUE
           created == DefaultGet(store, "class_map")
       IN  IF n \in DOMAIN created["class_map"]
           THEN Outcome(created, NoException, {class_ref})
           ELSE Outcome([created EXCEPT
                           !["class_map"] = Put(created["class_map"], n, class_ref)],
                        NoException, {class_ref})

\* Registrable.register_class_ref(class_ref, name=None), lines 225-232
register_class_ref(store, class_ref, name) ==
  IF name = None /\ ~issubclass_Registrable(class_ref)
  THEN Outcome(store, Raise("AssertionError", NotRegistrable), NoReturn)
  ELSE LET n == IF name = None THEN type_name(class_ref) ELSE CHOOSE s \in name : TRUE
           created == DefaultGet(store, "class_map")
       IN  Outcome([created EXCEPT !["class_map"] = Put(created["class_map"], n, class_ref)],
                   NoException, {class_ref})

\* Registrable.lookup_class_ref(class_name), lines 235-238
lookup_class_ref(store, class_name) ==
  LET created == DefaultGet(store, "class_map")
  IN  IF class_name \notin DOMAIN created["class_map"]
      THEN Outcome(created, Raise("KeyError", NoClassFound(class_name)), NoReturn)
      ELSE Outcome(created, NoException, {created["class_map"][class_name]})

(***************************************************************************)
(* instantiate(callable, config, unused_keys=(), **kwargs), lines 182-206   *)
(***************************************************************************)
\* field names of configurations and keyword overrides
Fields == {"a", "b", "c"}

Values == 1..MaxValue

\* every dict from some of the fields to values
Configs == UNION {[S -> Values] : S \in SUBSET Fields}

\* the merge with the operands swapped: {**kwargs, **config}
merge_config_wins(config, kwargs) ==
  [k \in (DOMAIN config) \cup (DOMAIN kwargs) |->
     IF k \in DOMAIN config THEN config[k] ELSE kwargs[k]]

\* {**config, **kwargs}, line 183
merge(config, kwargs) ==
  [k \in (DOMAIN config) \cup (DOMAIN kwargs) |->
     IF k \in DOMAIN kwargs THEN kwargs[k] ELSE config[k]]

\* signature.parameters of a constructor, line 186
signature(callable) == Classes[callable].params

\* the keys of signature.parameters
parameter_names(callable) ==
  {signature(callable)[i].name : i \in DOMAIN signature(callable)}

\* the parameter kinds rejected by the loop of lines 187-190
unsupported_kinds == {"POSITIONAL_ONLY", "VAR_POSITIONAL"}

\* positions of the parameters the loop of lines 187-190 raises on
unsupported(callable) ==
  {i \in DOMAIN signature(callable) : signature(callable)[i].kind \in unsupported_kinds}

\* the test of lines 192-193 made against the wrong parameter kind
has_var_positional(callable) ==
  \E i \in DOMAIN signature(callable) : signature(callable)[i].kind = "VAR_POSITIONAL"

\* any(param.kind == VAR_KEYWORD ...), lines 192-193
has_var_keyword(callable) ==
  \E i \in DOMAIN signature(callable) : signature(callable)[i].kind = "VAR_KEYWORD"

\* missing built without the unused_keys test of line 201
missing_ignoring_unused(callable, merged, unused_keys) ==
  [k \in {key \in DOMAIN merged : key \notin parameter_names(callable)} |-> merged[k]]

\* the dict missing built by lines 198-202
missing(callable, merged, unused_keys) ==
  [k \in {key \in DOMAIN merged :
            key \notin parameter_names(callable) /\ key \notin unused_keys} |-> merged[k]]

\* merged when the pop of line 203 is nested under the test of line 201
popped_unless_unused(callable, merged, unused_keys) ==
  [k \in {key \in DOMAIN merged :
            key \in parameter_names(callable) \/ key \in unused_keys} |-> merged[k]]

\* merged after the pops of line 203
popped(callable, merged, unused_keys) ==
  [k \in {key \in DOMAIN merged : key \in parameter_names(callable)} |-> merged[k]]

\* print(f'WARNING {callable}: superfluous {missing}', file=sys.stderr), lines 204-205
warning(callable, m) ==
  IF m # EmptyDict THEN << [callable |-> callable, superfluous |-> m] >> ELSE << >>

\* callable(**merged): the instance is the constructor and the arguments it got
invoke(callable, arguments) == {[callable |-> callable, arguments |-> arguments]}

\* the caller's config when merged is the caller's dict itself, updated with
\* kwargs and popped in place, instead of a new dict
caller_config_aliased(callable, config, unused_keys, kwargs) ==
  IF unsupported(callable) # {} \/ has_var_keyword(callable)
  THEN merge(config, kwargs)
  ELSE popped(callable, merge(config, kwargs), unused_keys)

\* the caller's config after instantiate: line 183 builds merged as a new
\* dict and the pops of line 203 act on merged, so config is as it was
caller_config(callable, config, unused_keys, kwargs) == config

\* instantiate with the catch-all test of lines 192-194 made before the
\* parameter-kind loop of lines 187-190
instantiate_catch_all_first(callable, config, unused_keys, kwargs) ==
  LET merged == merge(config, kwargs)
      bad == unsupported(callable)
      first == CHOOSE i \in bad : \A j \in bad : i <= j
      none == [Outcome(EmptyDict, NoException, NoReturn)
                 EXCEPT !.config = {caller_config(callable, config, unused_keys, kwargs)}]
  IN  IF has_var_keyword(callable)
      THEN [none EXCEPT !.ret = invoke(callable, merged)]
      ELSE IF bad # {}
      THEN [none EXCEPT !.exc = "ValueError",
                        !.arg = UnsupportedKind(signature(callable)[first])]
      ELSE [none EXCEPT !.ret = invoke(callable, popped(callable, merged, unused_keys)),
                        !.stderr = warning(callable, missing(callable, merged, unused_keys))]

instantiate(callable, config, unused_keys, kwargs) ==
  LET merged == merge(config, kwargs)
      bad == unsupported(callable)
      first == CHOOSE i \in bad : \A j \in bad : i <= j
      none == [Outcome(EmptyDict, NoException, NoReturn)
                 EXCEPT !.config = {caller_config(callable, config, unused_keys, kwargs)}]
  IN  IF bad # {}
      THEN [none EXCEPT !.exc = "ValueError",
                        !.arg = UnsupportedKind(signature(callable)[first])]
      ELSE IF has_var_keyword(callable)
      THEN [none EXCEPT !.ret = invoke(callable, merged)]
      ELSE [none EXCEPT !.ret = invoke(callable, popped(callable, merged, unused_keys)),
                        !.stderr = warning(callable, missing(callable, merged, unused_keys))]

\* construct that hands a string config on as a config without fields
construct_name_dropped(store, kind, config, unused_keys, kwargs) ==
  LET cfg == IF config.isMapping THEN config ELSE Mapping(EmptyDict)
      found == lookup(store, kind, config)
      made == instantiate(CHOOSE c \in found.ret : TRUE, cfg.map,
                          unused_keys \cup {"name"}, kwargs)
  IN  IF found.exc # "None"
      THEN [found EXCEPT !.config = {config}]
      ELSE [made EXCEPT !.store = found.store, !.config = {config}]

\* construct(kind, config, unused_keys=(), **kwargs), lines 139-145
construct(store, kind, config, unused_keys, kwargs) ==
  LET cfg == IF config.isMapping THEN config ELSE Mapping([name |-> config.str])
      found == lookup(store, kind, cfg)
      made == instantiate(CHOOSE c \in found.ret : TRUE, cfg.map,
                          unused_keys \cup {"name"}, kwargs)
      \* the caller's config: a string, or the dict handed on to instantiate
      after == IF config.isMapping
               THEN {Mapping(CHOOSE c \in made.config : TRUE)}
               ELSE {config}
  IN  IF found.exc # "None"
      THEN [found EXCEPT !.config = {config}]
      ELSE [made EXCEPT !.store = found.store, !.config = after]

(***************************************************************************)
(* The registry as a state machine: one action per call.  last records     *)
(* the most recent call, its arguments and its outcome.                    *)
(***************************************************************************)
Call(op, args, o) ==
  [op |-> op, args |-> args, pc |-> "returned",
   exc |-> o.exc, arg |-> o.arg, ret |-> o.ret, stderr |-> o.stderr,
   config |-> o.config]

Init ==
  /\ LOOKUP_DICT = EmptyDict
  /\ decorators = {}
  /\ last = Call("import", <<>>, Outcome(EmptyDict, NoException, NoReturn))
  /\ threads = <<>>

Load(kind, name) ==
  LET o == load(LOOKUP_DICT, kind, name)
  IN  /\ Cardinality(decorators \cup o.ret) <= MaxDecorators
      /\ LOOKUP_DICT' = o.store
      /\ decorators' = decorators \cup o.ret
      /\ last' = Call("load", [kind |-> kind, name |-> name], o)
      /\ UNCHANGED threads

Decorate(d, obj) ==
  LET o == decorator(LOOKUP_DICT, d, obj)
  IN  /\ d \in decorators
      /\ LOOKUP_DICT' = o.store
      /\ last' = Call("decorator", [kind |-> d.kind, name |-> d.name, obj |-> obj], o)
      /\ UNCHANGED <<decorators, threads>>

Lookup(kind, name) ==
  LET o == lookup(LOOKUP_DICT, kind, name)
  IN  /\ LOOKUP_DICT' = o.store
      /\ last' = Call("lookup", [kind |-> kind, name |-> name], o)
      /\ UNCHANGED <<decorators, threads>>

RegisterClassRef(class_ref, name) ==
  LET o == register_class_ref(LOOKUP_DICT, class_ref, name)
  IN  /\ LOOKUP_DICT' = o.store
      /\ last' = Call("register_class_ref", [class_ref |-> class_ref, name |-> name], o)
      /\ UNCHANGED <<decorators, threads>>

LookupClassRef(class_name) ==
  LET o == lookup_class_ref(LOOKUP_DICT, class_name)
  IN  /\ LOOKUP_DICT' = o.store
      /\ last' = Call("lookup_class_ref", [class_name |-> class_name], o)
      /\ UNCHANGED <<decorators, threads>>

\* the arguments construct and instantiate are called with on the registry
ConstructConfigs ==
  { Str("dlrm"),
    Mapping([name |-> "dlrm"]),
    Mapping([name |-> "dlrm", a |-> 1, c |-> MaxValue]),
    Mapping([a |-> 1]) }

\* pairs of unused_keys and **kwargs
ConstructOptions ==
  { [unused_keys |-> {}, kwargs |-> EmptyDict],
    [unused_keys |-> {"c"}, kwargs |-> [a |-> MaxValue]] }

Construct(kind, config, unused_keys, kwargs) ==
  LET o == construct(LOOKUP_DICT, kind, config, unused_keys, kwargs)
  IN  /\ LOOKUP_DICT' = o.store
      /\ last' = Call("construct", [kind |-> kind, config |-> config,
                                    unused_keys |-> unused_keys, kwargs |-> kwargs], o)
      /\ UNCHANGED <<decorators, threads>>

Instantiate(callable, config, unused_keys, kwargs) ==
  LET o == instantiate(callable, config, unused_keys, kwargs)
  IN  /\ last' = Call("instantiate", [callable |-> callable, config |-> config,
                                      unused_keys |-> unused_keys, kwargs |-> kwargs], o)
      /\ UNCHANGED <<LOOKUP_DICT, decorators, threads>>

Next ==
  \/ \E kind \in Kinds, name \in Names : Load(kind, name)
  \/ \E d \in decorators, obj \in Registered : Decorate(d, obj)
  \/ \E kind \in Kinds, name \in NameArgs : Lookup(kind, name)
  \/ \E class_ref \in Registered, name \in ClassRefNames :
        RegisterClassRef(class_ref, name)
  \/ \E class_name \in ClassNames : LookupClassRef(class_name)
  \/ \E kind \in Kinds \ {"class_map"}, config \in ConstructConfigs,
        opt \in ConstructOptions :
        Construct(kind, config, opt.unused_keys, opt.kwargs)
  \/ \E callable \in Registered :
        Instantiate(callable, [name |-> "dlrm", a |-> 1, c |-> MaxValue],
                    {"c"}, [a |-> MaxValue])

Spec == Init /\ [][Next]_vars

(***************************************************************************)
(* instantiate as a function of its arguments: the initial state is a call *)
(* that has been made, with any arguments, and the one step returns from   *)
(* it.                                                                     *)
(***************************************************************************)
InstantiateArgs ==
  [callable : Callables, config : Configs, unused_keys : SUBSET Fields, kwargs : Configs]

InitInstantiate ==
  /\ LOOKUP_DICT = EmptyDict
  /\ decorators = {}
  /\ threads = <<>>
  /\ \E args \in InstantiateArgs :
        last = [Call("instantiate", args, Outcome(EmptyDict, NoException, NoReturn))
                  EXCEPT !.pc = "called"]

InstantiateReturn ==
  /\ last.op = "instantiate"
  /\ last.pc = "called"
  /\ last' = Call("instantiate", last.args,
                  instantiate(last.args.callable, last.args.config,
                              last.args.unused_keys, last.args.kwargs))
  /\ UNCHANGED <<LOOKUP_DICT, decorators, threads>>

NextInstantiate == InstantiateReturn

SpecInstantiate == InitInstantiate /\ [][NextInstantiate]_vars

(***************************************************************************)
(* The decorator body run by several threads without serialization.  The   *)
(* program has called load(kind, name) once and every thread applies the   *)
(* returned decorator to its own object; a thread can be preempted between *)
(* the lines of the body, so each line is a step.                          *)
(***************************************************************************)
\* name in registry, line 57
name_in_registry(store, d) == d.name \in DOMAIN store[d.kind]

\* an insert that tests the name again and raises when it is present
insert_if_absent(store, d, obj) ==
  IF d.name \in DOMAIN store[d.kind]
  THEN Outcome(store, Raise("LookupError", AlreadyPresent(d.name)), NoReturn)
  ELSE Outcome([store EXCEPT ![d.kind] = Put(store[d.kind], d.name, obj)],
               NoException, NoReturn)

\* registry[name] = obj, line 59
insert(store, d, obj) ==
  Outcome([store EXCEPT ![d.kind] = Put(store[d.kind], d.name, obj)],
          NoException, NoReturn)

\* class_ref[f"{obj.__module__}.{obj.__name__}"] = obj, line 60
insert_class_ref(store, obj) ==
  [store EXCEPT !["class_map"] = Put(store["class_map"], type_name(obj), obj)]

Threads == 1..NumThreads

\* the decorator the threads apply
shared == CHOOSE d \in decorators : TRUE

InitConcurrent ==
  \E kind \in Kinds \ {"class_map"}, name \in Names :
    LET o == load(EmptyDict, kind, name)
    IN  /\ LOOKUP_DICT = o.store
        /\ decorators = o.ret
        /\ last = Call("load", [kind |-> kind, name |-> name], o)
        /\ threads \in [Threads -> [pc : {"line57"}, obj : Registered, exc : {"None"}]]

\* lines 57-58: the membership test, raising when the name is present
CheckName(t) ==
  /\ threads[t].pc = "line57"
  /\ threads' = [threads EXCEPT ![t] =
       IF name_in_registry(LOOKUP_DICT, shared)
       THEN [@ EXCEPT !.pc = "raised", !.exc = "LookupError"]
       ELSE [@ EXCEPT !.pc = "line59"]]
  /\ UNCHANGED <<LOOKUP_DICT, decorators, last>>

\* line 59
InsertName(t) ==
  LET o == insert(LOOKUP_DICT, shared, threads[t].obj)
  IN  /\ threads[t].pc = "line59"
      /\ LOOKUP_DICT' = o.store
      /\ threads' = [threads EXCEPT ![t] =
           IF o.exc = "None"
           THEN [@ EXCEPT !.pc = "line60"]
           ELSE [@ EXCEPT !.pc = "raised", !.exc = o.exc]]
      /\ UNCHANGED <<decorators, last>>

\* lines 60-61
InsertClassRef(t) ==
  /\ threads[t].pc = "line60"
  /\ LOOKUP_DICT' = insert_class_ref(LOOKUP_DICT, threads[t].obj)
  /\ threads' = [threads EXCEPT ![t].pc = "returned"]
  /\ UNCHANGED <<decorators, last>>

NextConcurrent ==
  \/ \E t \in Threads : CheckName(t)
  \/ \E t \in Threads : InsertName(t)
  \/ \E t \in Threads : InsertClassRef(t)

SpecConcurrent == InitConcurrent /\ [][NextConcurrent]_vars

(***************************************************************************)
(* The error kinds of the specification, as the exceptions the code raises *)
(***************************************************************************)
IsDuplicateRegistrationError(o, name) ==
  o.exc = "LookupError" /\ o.arg = AlreadyPresent(name)

IsUnknownKindError(o, kind) ==
  o.exc = "KeyError" /\ o.arg = NothingRegistered(kind)

IsUnknownNameError(o, name) ==
  o.exc = "KeyError" /\ o.arg = name

IsReservedKindError(o) ==
  o.exc = "AssertionError" /\ o.arg = ReservedKeyword

(***************************************************************************)
(* Properties of registration and lookup, checked under Spec               *)
(***************************************************************************)
\* kind is a key of the registry and name a key of its bucket
Present(store, kind, name) ==
  kind \in DOMAIN store /\ name \in DOMAIN store[kind]

\* the entry (kind, name), when there is one, is the same before and after
EntryKept(kind, name) ==
  Present(LOOKUP_DICT, kind, name) =>
    /\ Present(LOOKUP_DICT', kind, name)
    /\ LOOKUP_DICT'[kind][name] = LOOKUP_DICT[kind][name]

\* C1: applying a decorator obtained from load(k, n) while n is already in
\* kind k's bucket raises the duplicate-registration error (LookupError
\* "<n> already present") and leaves LOOKUP_DICT, class_map included, as it was.
C1_DuplicateRaisesAndKeepsStore ==
  [][ (last'.op = "decorator" /\ Present(LOOKUP_DICT, last'.args.kind, last'.args.name))
        => /\ IsDuplicateRegistrationError(last', last'.args.name)
           /\ last'.ret = {}
           /\ LOOKUP_DICT' = LOOKUP_DICT ]_vars

\* a duplicate registration was attempted with a different constructor
C1_Witness ==
  /\ last.op = "decorator"
  /\ last.exc = "LookupError"
  /\ LOOKUP_DICT[last.args.kind][last.args.name] # last.args.obj

\* C2 as stated: in every bucket, class_map included, an entry once present
\* stays present with the same constructor over every call.
C2_EveryBucketKeepsEntries ==
  [][ \A kind \in Kinds : \A name \in Names \cup ClassNames : EntryKept(kind, name) ]_vars

\* C2 amended: in every bucket other than the reserved class_map bucket, an
\* entry once present stays present with the same constructor over every call
\* (load, decorator, register_class_ref, lookup, lookup_class_ref, construct,
\* instantiate).
C2_KindBucketsKeepEntries ==
  [][ \A kind \in Kinds \ {"class_map"} : \A name \in Names : EntryKept(kind, name) ]_vars

\* a kind bucket still holds a constructor whose class_map entry has since
\* been replaced by another constructor, and a duplicate was just refused
C2_Witness ==
  /\ last.op = "decorator"
  /\ last.exc = "LookupError"
  /\ \E kind \in Kinds \ {"class_map"} : \E name \in Names :
        /\ Present(LOOKUP_DICT, kind, name)
        /\ LOOKUP_DICT["class_map"][type_name(LOOKUP_DICT[kind][name])]
             # LOOKUP_DICT[kind][name]

\* C3: lookup of a kind that is not in the registry raises UnknownKindError,
\* lookup of a name missing from a kind that is in the registry raises
\* UnknownNameError, and the two exceptions differ in their kind (class).
C3_AbsentKindAndAbsentNameDiffer ==
  \A k1 \in Kinds, k2 \in Kinds : \A n1 \in Names, n2 \in Names :
    (k1 \notin DOMAIN LOOKUP_DICT /\ k2 \in DOMAIN LOOKUP_DICT
       /\ n2 \notin DOMAIN LOOKUP_DICT[k2])
    => LET absentKind == lookup(LOOKUP_DICT, k1, Str(n1))
           absentName == lookup(LOOKUP_DICT, k2, Str(n2))
       IN  /\ IsUnknownKindError(absentKind, k1)
           /\ IsUnknownNameError(absentName, n2)
           /\ absentKind.exc # absentName.exc

\* C4: lookup(k, n) raises UnknownKindError for every kind k under which no
\* constructor has been registered: its bucket is missing or empty.
C4_NothingRegisteredIsUnknownKind ==
  \A kind \in Kinds : \A name \in Names :
    (kind \notin DOMAIN LOOKUP_DICT \/ LOOKUP_DICT[kind] = EmptyDict)
    => IsUnknownKindError(lookup(LOOKUP_DICT, kind, Str(name)), kind)

\* C5: load("class_map", n) raises the reserved-kind error (the assertion of
\* line 52) for every n, returns no decorator and leaves the registry as it
\* was; no decorator is bound to the class_map bucket as its kind bucket, and
\* applying a decorator writes class_map only under the qualified name of the
\* object it is applied to.
C5_ReservedKindRefused ==
  [][ /\ (last'.op = "load" /\ last'.args.kind = "class_map")
         => /\ IsReservedKindError(last')
            /\ last'.ret = {}
            /\ LOOKUP_DICT' = LOOKUP_DICT
            /\ decorators' = decorators
      /\ \A d \in decorators' : d.kind # "class_map"
      /\ (last'.op = "decorator")
         => \A q \in DOMAIN LOOKUP_DICT'["class_map"] :
              \/ q = type_name(last'.args.obj)
              \/ /\ q \in DOMAIN LOOKUP_DICT["class_map"]
                 /\ LOOKUP_DICT'["class_map"][q] = LOOKUP_DICT["class_map"][q] ]_vars

\* load("class_map", n) was refused on a registry that already has entries
C5_Witness ==
  /\ last.op = "load"
  /\ last.args.kind = "class_map"
  /\ last.exc = "AssertionError"
  /\ \E kind \in DOMAIN LOOKUP_DICT : LOOKUP_DICT[kind] # EmptyDict

(***************************************************************************)
(* Properties of instantiate, checked under SpecInstantiate                *)
(***************************************************************************)
\* the call of instantiate has returned or raised
Returned == last.op = "instantiate" /\ last.pc = "returned"

\* the parameter names the constructor declares
Declared(callable) ==
  {Classes[callable].params[i].name : i \in 1..Len(Classes[callable].params)}

\* the constructor declares a parameter of one of the kinds
Declares(callable, kinds) ==
  \E i \in 1..Len(Classes[callable].params) : Classes[callable].params[i].kind \in kinds

\* neither positional-only nor variadic-positional parameters
Supported(callable) == ~Declares(callable, {"POSITIONAL_ONLY", "VAR_POSITIONAL"})

CatchAll(callable) == Declares(callable, {"VAR_KEYWORD"})

\* the fields of config and of the overrides of the call in last
GivenKeys == (DOMAIN last.args.config) \cup (DOMAIN last.args.kwargs)

\* the override's value where there is one, else the config's
GivenValue(f) ==
  IF f \in DOMAIN last.args.kwargs THEN last.args.kwargs[f] ELSE last.args.config[f]

\* the extraneous fields that were not declared unused
Superfluous == {f \in GivenKeys : f \notin Declared(last.args.callable)
                                    /\ f \notin last.args.unused_keys}

\* C6: every field the constructor receives carries the override's value
\* when the field is in the overrides and the config's value otherwise.
C6_MergeIsRightBiased ==
  Returned =>
    \A inst \in last.ret : \A f \in DOMAIN inst.arguments :
      /\ f \in GivenKeys
      /\ inst.arguments[f] = GivenValue(f)

\* the constructor received a field that config and overrides disagree on
C6_Witness ==
  /\ Returned
  /\ \E inst \in last.ret : \E f \in DOMAIN inst.arguments :
       /\ f \in (DOMAIN last.args.config) \cap (DOMAIN last.args.kwargs)
       /\ last.args.config[f] # last.args.kwargs[f]
       /\ inst.arguments[f] = last.args.kwargs[f]

\* C7: a constructor with no catch-all (and no unsupported parameter) is
\* called with exactly the merged keys that are declared parameter names;
\* extraneous keys are dropped whether or not they are in unused_keys.
C7_OnlyDeclaredKeysPassed ==
  (Returned /\ Supported(last.args.callable) /\ ~CatchAll(last.args.callable)) =>
    /\ last.ret # {}
    /\ \A inst \in last.ret :
         DOMAIN inst.arguments = GivenKeys \cap Declared(last.args.callable)

\* an extraneous key listed in unused_keys and one not listed were both
\* dropped while a declared key was passed
C7_Witness ==
  /\ Returned
  /\ Supported(last.args.callable) /\ ~CatchAll(last.args.callable)
  /\ \E inst \in last.ret :
       /\ DOMAIN inst.arguments # {}
       /\ \E f \in GivenKeys \ DOMAIN inst.arguments : f \in last.args.unused_keys
       /\ \E f \in GivenKeys \ DOMAIN inst.arguments : f \notin last.args.unused_keys

\* C8: for a constructor declaring a positional-only or variadic-positional
\* parameter, instantiate raises the unsupported-parameter-kind error
\* (ValueError) whatever config and overrides are, also when the constructor
\* declares a catch-all, and the constructor is not invoked.
C8_UnsupportedKindRaises ==
  (Returned /\ ~Supported(last.args.callable)) =>
    /\ last.exc = "ValueError"
    /\ last.ret = {}
    /\ last.stderr = << >>

\* the error was raised for a constructor that also declares a catch-all,
\* called with a non-empty config
C8_Witness ==
  /\ Returned
  /\ ~Supported(last.args.callable) /\ CatchAll(last.args.callable)
  /\ last.args.config # EmptyDict
  /\ last.exc = "ValueError"

\* C9: a constructor with a catch-all (and no unsupported parameter) is
\* called with every key of config and overrides, each with its merged
\* value, and no superfluous-configuration diagnostic is written.
C9_CatchAllGetsEverything ==
  (Returned /\ Supported(last.args.callable) /\ CatchAll(last.args.callable)) =>
    /\ last.exc = "None"
    /\ last.ret # {}
    /\ \A inst \in last.ret :
         /\ inst.callable = last.args.callable
         /\ DOMAIN inst.arguments = GivenKeys
         /\ \A f \in GivenKeys : inst.arguments[f] = GivenValue(f)
    /\ last.stderr = << >>

\* a key that is no declared parameter and not in unused_keys reached the
\* catch-all constructor
C9_Witness ==
  /\ Returned
  /\ Supported(last.args.callable) /\ CatchAll(last.args.callable)
  /\ Superfluous # {}
  /\ \E inst \in last.ret : Superfluous \subseteq DOMAIN inst.arguments

C11_NameOnlyToDeclaringConstructor ==
  (last.op = "construct" /\ last.exc = "None") =>
    \A inst \in last.ret :
      "name" \in DOMAIN inst.arguments => "name" \in Declared(inst.callable)

\* what a caller observes of a call of construct
Observed(o) == [store |-> o.store, exc |-> o.exc, arg |-> o.arg,
                ret |-> o.ret, stderr |-> o.stderr]

\* C12: on every registry state, for every kind, name string s, unused_keys
\* and overrides, construct(kind, s, ...) and construct(kind, {"name": s}, ...)
\* end the same way: the same exception, or the same constructor called with
\* the same arguments and the same diagnostic, and the same registry.
C12_StringConfigIsNameConfig ==
  \A kind \in Kinds, s \in Names, opt \in ConstructOptions :
    Observed(construct(LOOKUP_DICT, kind, Str(s), opt.unused_keys, opt.kwargs))
      = Observed(construct(LOOKUP_DICT, kind, Mapping([name |-> s]),
                           opt.unused_keys, opt.kwargs))

\* construct with a string config called a constructor that declares name
\* and handed it the string
C12_Witness ==
  /\ last.op = "construct"
  /\ ~last.args.config.isMapping
  /\ last.exc = "None"
  /\ \E inst \in last.ret :
       /\ "name" \in DOMAIN inst.arguments
       /\ inst.arguments["name"] = last.args.config.str

\* the constructors held by the kind buckets other than class_map
OrdinarilyRegistered(store) ==
  UNION {{store[kind][name] : name \in DOMAIN store[kind]} :
           kind \in (DOMAIN store) \ {"class_map"}}

\* C13 as stated: in every reachable state, lookup_class_ref of the
\* qualified identity of every constructor registered under some
\* (kind, name) returns that constructor.
C13_RegisteredIsReverseLookupable ==
  \A c \in OrdinarilyRegistered(LOOKUP_DICT) :
    lookup_class_ref(LOOKUP_DICT, type_name(c)).ret = {c}

\* C13 amended: in every reachable state, lookup_class_ref of the qualified
\* identity of every constructor registered under some (kind, name)
\* succeeds, and right after the successful registration of c it returns c.
C13_RegisteredIdentityIsPresent ==
  /\ \A c \in OrdinarilyRegistered(LOOKUP_DICT) :
       LET found == lookup_class_ref(LOOKUP_DICT, type_name(c))
       IN  found.exc = "None" /\ found.ret # {}
  /\ (last.op = "decorator" /\ last.exc = "None")
       => lookup_class_ref(LOOKUP_DICT, type_name(last.args.obj)).ret
            = {last.args.obj}

\* a constructor is registered under a kind while its qualified identity
\* resolves to another constructor
C13_Witness ==
  \E c \in OrdinarilyRegistered(LOOKUP_DICT) :
    /\ lookup_class_ref(LOOKUP_DICT, type_name(c)).exc = "None"
    /\ lookup_class_ref(LOOKUP_DICT, type_name(c)).ret # {c}

\* C14: register_class_ref(c) with name omitted raises the assertion error
\* and leaves the registry, class_map included, as it was when c is no
\* subclass of Registrable; when it is one the call succeeds and
\* lookup_class_ref(c.type_name()) made right after returns c.
C14_ClassRefNeedsIdentity ==
  [][ (last'.op = "register_class_ref" /\ last'.args.name = None) =>
        IF Classes[last'.args.class_ref].registrable
        THEN /\ last'.exc = "None"
             /\ last'.ret = {last'.args.class_ref}
             /\ lookup_class_ref(LOOKUP_DICT', type_name(last'.args.class_ref)).ret
                  = {last'.args.class_ref}
        ELSE /\ last'.exc = "AssertionError"
             /\ last'.arg = NotRegistrable
             /\ LOOKUP_DICT' = LOOKUP_DICT ]_vars

\* the call was refused for a class without the capability while class_map
\* already had entries
C14_Witness ==
  /\ last.op = "register_class_ref"
  /\ last.args.name = None
  /\ ~Classes[last.args.class_ref].registrable
  /\ last.exc = "AssertionError"
  /\ "class_map" \in DOMAIN LOOKUP_DICT
  /\ LOOKUP_DICT["class_map"] # EmptyDict

\* C15: a successful registration of c under (k, n) changes only entry n of
\* kind k's bucket and entry qualified_identity(c) of class_map and removes
\* nothing; a registration of n under a kind whose bucket does not hold n
\* succeeds whatever the other kinds hold, and afterwards each kind's lookup
\* of n returns that kind's own constructor.
C15_RegistrationTouchesOwnEntries ==
  [][ (last'.op = "decorator") =>
        LET k == last'.args.kind
            n == last'.args.name
            c == last'.args.obj
        IN  /\ ~Present(LOOKUP_DICT, k, n) => last'.exc = "None"
            /\ last'.exc = "None" =>
                 /\ DOMAIN LOOKUP_DICT' = DOMAIN LOOKUP_DICT
                 /\ lookup(LOOKUP_DICT', k, Str(n)).ret = {c}
                 /\ \A kind \in DOMAIN LOOKUP_DICT :
                      /\ DOMAIN LOOKUP_DICT[kind] \subseteq DOMAIN LOOKUP_DICT'[kind]
                      /\ \A key \in DOMAIN LOOKUP_DICT'[kind] :
                           \/ kind = k /\ key = n
                           \/ kind = "class_map" /\ key = type_name(c)
                           \/ /\ key \in DOMAIN LOOKUP_DICT[kind]
                              /\ LOOKUP_DICT'[kind][key] = LOOKUP_DICT[kind][key]
                 /\ \A kind \in (DOMAIN LOOKUP_DICT) \ {k} :
                      /\ lookup(LOOKUP_DICT', kind, Str(n)).exc
                           = lookup(LOOKUP_DICT, kind, Str(n)).exc
                      /\ lookup(LOOKUP_DICT', kind, Str(n)).ret
                           = lookup(LOOKUP_DICT, kind, Str(n)).ret ]_vars

\* the same name was just registered under a second kind and the two kinds
\* resolve it to different constructors
C15_Witness ==
  /\ last.op = "decorator"
  /\ last.exc = "None"
  /\ \E k2 \in (DOMAIN LOOKUP_DICT) \ {"class_map", last.args.kind} :
       /\ lookup(LOOKUP_DICT, k2, Str(last.args.name)).exc = "None"
       /\ lookup(LOOKUP_DICT, k2, Str(last.args.name)).ret # {last.args.obj}
       /\ lookup(LOOKUP_DICT, last.args.kind, Str(last.args.name)).ret = {last.args.obj}

C17_LookupIsPureRead ==
  [][ (last'.op = "lookup") =>
        /\ LOOKUP_DICT' = LOOKUP_DICT
        /\ DOMAIN LOOKUP_DICT' = DOMAIN LOOKUP_DICT
        /\ decorators' = decorators ]_vars

\* a lookup failed on a kind that is absent, and the kind is still absent
C17_Witness ==
  /\ last.op = "lookup"
  /\ last.exc = "KeyError"
  /\ last.arg = NothingRegistered(last.args.kind)
  /\ last.args.kind \notin DOMAIN LOOKUP_DICT
  /\ LOOKUP_DICT # EmptyDict

\* C18: a call of lookup_class_ref, returning or raising, leaves LOOKUP_DICT
\* as it was, so a later lookup("class_map", x) ends as it would have
\* without the call.
C18_LookupClassRefIsPureRead ==
  [][ (last'.op = "lookup_class_ref") =>
        /\ LOOKUP_DICT' = LOOKUP_DICT
        /\ \A x \in Names :
             lookup(LOOKUP_DICT', "class_map", Str(x)).arg
               = lookup(LOOKUP_DICT, "class_map", Str(x)).arg ]_vars

\* the qualified name a call of register_class_ref writes under
WrittenName(args) ==
  IF args.name = None THEN type_name(args.class_ref) ELSE CHOOSE q \in args.name : TRUE

\* C19: writes to class_map are last-writer-wins.  register_class_ref fails
\* only on the assertion for an omitted name, a decorator only on a
\* duplicate name in its kind bucket, never on an occupied qualified name;
\* after either write lookup_class_ref of the name written returns the
\* constructor written, and no other call changes an entry of class_map.
C19_ClassMapLastWriterWins ==
  [][ /\ (last'.op = "register_class_ref") =>
           /\ last'.exc # "None" =>
                (last'.args.name = None /\ ~Classes[last'.args.class_ref].registrable)
           /\ last'.exc = "None" =>
                lookup_class_ref(LOOKUP_DICT', WrittenName(last'.args)).ret
                  = {last'.args.class_ref}
      /\ (last'.op = "decorator") =>
           /\ last'.exc # "None" =>
                Present(LOOKUP_DICT, last'.args.kind, last'.args.name)
           /\ last'.exc = "None" =>
                lookup_class_ref(LOOKUP_DICT', type_name(last'.args.obj)).ret
                  = {last'.args.obj}
      /\ (last'.exc # "None" \/ last'.op \notin {"register_class_ref", "decorator"}) =>
           \A q \in ClassNames : EntryKept("class_map", q) ]_vars

\* register_class_ref wrote a constructor under the qualified name of
\* another constructor that an earlier registration had put there
C19_Witness ==
  /\ last.op = "register_class_ref"
  /\ last.exc = "None"
  /\ last.args.name # None
  /\ \E c \in OrdinarilyRegistered(LOOKUP_DICT) :
       /\ type_name(c) = WrittenName(last.args)
       /\ c # last.args.class_ref
       /\ type_name(last.args.class_ref) # type_name(c)
  /\ LOOKUP_DICT["class_map"][WrittenName(last.args)] = last.args.class_ref

(***************************************************************************)
(* Unserialized decorator applications, checked under SpecConcurrent       *)
(***************************************************************************)
\* C20: two applications of the decorator for one (kind, name) that run
\* without serialization can both complete.  An application raises only at
\* its own membership test and only when the name is present at that
\* moment; once it has passed the test its insert never raises, whatever
\* another application has inserted since, and replaces the entry that is
\* there, so both can return without the duplicate-registration error while
\* the entry written first is overwritten by the second.
C20_PassedCheckAlwaysInserts ==
  [][ \A t \in Threads :
        /\ (threads[t].pc = "line57" /\ threads'[t].pc # "line57") =>
             IF Present(LOOKUP_DICT, shared.kind, shared.name)
             THEN threads'[t].pc = "raised" /\ threads'[t].exc = "LookupError"
             ELSE threads'[t].pc = "line59" /\ threads'[t].exc = "None"
        /\ (threads[t].pc = "line59" /\ threads'[t].pc # "line59") =>
             /\ threads'[t].pc = "line60"
             /\ threads'[t].exc = "None"
             /\ LOOKUP_DICT'[shared.kind][shared.name] = threads[t].obj
        /\ (threads[t].pc \in {"line60", "returned"}) => threads'[t].exc = "None" ]_vars

\* two applications with different constructors have both returned without
\* an error and the bucket holds only the second writer's constructor
C20_Witness ==
  \E t1 \in Threads, t2 \in Threads :
    /\ threads[t1].pc = "returned" /\ threads[t1].exc = "None"
    /\ threads[t2].pc = "returned" /\ threads[t2].exc = "None"
    /\ threads[t1].obj # threads[t2].obj
    /\ LOOKUP_DICT[shared.kind][shared.name] = threads[t2].obj
    /\ LOOKUP_DICT[shared.kind][shared.name] # threads[t1].obj

====
